---------------------------- MODULE Spec2Model ----------------------------
(***************************************************************************)
(* A model of communex/cli/_common.py: the CLI session context             *)
(* (CustomCtx.com_client, CustomCtx.confirm), the module-table pipeline    *)
(* (transform_module_into, print_module_info), print_table_standardize and *)
(* remove_none_values.                                                     *)
(*                                                                         *)
(* Python values are modelled as follows.                                  *)
(*   - None is [t |-> "none"]; a CommuneClient handle is a record holding  *)
(*     its constructor arguments and the number of the constructor call.   *)
(*   - An f-string is the sequence of its literal and interpolated parts.  *)
(*   - A dict is the sequence of its <<key, value>> items in insertion     *)
(*     order, keys unique.                                                 *)
(*   - A value of a dict is a tagged record: [t |-> "none"],               *)
(*     [t |-> "int", v |-> i], [t |-> "dict", d |-> items], ...            *)
(***************************************************************************)
EXTENDS Integers, Sequences, FiniteSets, TLC

VARIABLES
    \* ---- CustomCtx ----
    obj,              \* ctx.obj: the flags parsed by the outer framework
    use_yes_to_all,   \* CustomCtx.use_yes_to_all
    use_testnet,      \* CustomCtx.use_testnet
    _com_client,      \* CustomCtx._com_client: None or a handle
    cc_pc,            \* position inside com_client: "idle", "attempt", "finish"
    cc_entry,         \* how the last com_client call began: "none", "cached", "uncached"
    node_url,         \* com_client's local node_url
    current,          \* com_client's loop variable
    status_active,    \* inside `with self.progress_status() as status`
    progress,         \* every status.update message, in order (console_err)
    progress_mark,    \* Len(progress) when the last com_client call began
    ctorLog,          \* outcome of each CommuneClient(...) call of the last com_client
    ctorCalls,        \* number of CommuneClient(...) calls made so far
    writes,           \* number of assignments to self._com_client so far
    calls,            \* number of com_client calls begun so far
    cc_result,        \* how the last com_client call ended
    stdout,           \* lines written to standard output by print()
    prompts,          \* messages handed to typer.confirm
    confirms,         \* number of confirm calls so far
    confirm_ret,      \* the last confirm call: its message and return value
    \* ---- print_module_info / transform_module_into ----
    modules,          \* the `modules` argument
    block,            \* what client.get_block() returns: None or a block number
    chain_tempo,      \* what client.get_tempo(netuid) returns
    pm_pc,            \* position inside print_module_info
    client_calls,     \* the methods called on `client`, in order
    last_block, immunity_period, tempo,
    transformed,      \* transform_module_into's transformed_modules
    table,            \* the rich Table being built
    total_stake, total_balance,
    row_idx,          \* index of the next record of a loop
    console,          \* what has been printed to `console`, in order
    pm_error,         \* the exception print_module_info ended with, or None
    \* ---- print_table_standardize ----
    zresult,          \* the `result` argument
    z_pc, ztable, zipped_rows, z_idx, zconsole,
    \* ---- remove_none_values ----
    data,             \* the `data` argument
    rnv_pc, cleaned, cleaned_twice

ctxVars == <<obj, use_yes_to_all, use_testnet, _com_client, cc_pc, cc_entry,
             node_url, current, status_active, progress, progress_mark,
             ctorLog, ctorCalls, writes, calls, cc_result, stdout, prompts, confirms, confirm_ret>>
pmVars == <<modules, block, chain_tempo, pm_pc, client_calls, last_block,
            immunity_period, tempo, transformed, table, total_stake,
            total_balance, row_idx, console, pm_error>>
zVars == <<zresult, z_pc, ztable, zipped_rows, z_idx, zconsole>>
rnvVars == <<data, rnv_pc, cleaned, cleaned_twice>>
vars == <<ctxVars, pmVars, zVars, rnvVars>>

\* None as a string (an exception name, a URL) and None as a value
None == "None"
NoneV == [t |-> "none"]

-----------------------------------------------------------------------------
(* Bounds of the model. *)

MaxCalls == 2       \* com_client calls on one context
MaxConfirms == 2    \* confirm calls on one context

-----------------------------------------------------------------------------
(* CustomCtx *)

\* range(1, 6): the loop of com_client runs current = 1..5
MaxAttempts == 5

\* The exceptions CommuneClient(...) may raise; all derive from Exception.
CtorExceptions == {"ConnectionRefusedError", "TimeoutError"}

Messages == {"Proceed?", "Delete key?"}

\* communex._common.get_node_url(None, use_testnet=...)
get_node_url(testnet) == IF testnet THEN "wss://testnet-node" ELSE "wss://mainnet-node"

\* f'Connecting to node {node_url}...'
ConnectingMsg(url) == <<"Connecting to node ", url, "...">>

\* f'Connecting to node {node_url} ({current}/5 retries)...'
RetryMsg(url, cur) == <<"Connecting to node ", url, " (", ToString(cur), "/5 retries)...">>

\* a variant of ConnErrorMsg: the message names the node
ConnErrorMsgWithUrl(url) == <<"Could not connect to node ", url>>

\* ConnectionError("Could not connect to any node")
ConnErrorMsg(url) == <<"Could not connect to any node">>

\* CommuneClient(url = node_url, num_connections = 1, wait_for_finalization = False)
CommuneClient(url, n) ==
    [t |-> "client", id |-> n, url |-> url, num_connections |-> 1,
     wait_for_finalization |-> FALSE]

\* a variant of HasCached: the cached connection is never reused
HasCachedNever(c) == FALSE

\* `if self._com_client is not None`
HasCached(c) == c # NoneV

\* a variant of Caught: `except ConnectionRefusedError:`
CaughtRefusedOnly(exc) == exc = "ConnectionRefusedError"

\* `except Exception:` catches every exception deriving from Exception
Caught(exc) == exc \in CtorExceptions

\* a variant of OnFailureUpdates: `except Exception: pass`
OnFailureSilent(url, cur) == <<>>

\* what the `except` clause reports after a failed attempt
OnFailureUpdates(url, cur) == <<RetryMsg(url, cur)>>

\* a variant of SkipsPrompt: the flag is not consulted
SkipsPromptNever(o) == FALSE

\* `if (self.ctx.obj.yes_to_all)`
SkipsPrompt(o) == o.yes_to_all

\* f"{message} (--yes)"
AutoConfirmLine(message) == <<message, " (--yes)">>

CtxInit ==
    /\ obj \in [yes_to_all : BOOLEAN, use_testnet : BOOLEAN]
    /\ use_yes_to_all = obj.yes_to_all
    /\ use_testnet = obj.use_testnet
    /\ _com_client = NoneV
    /\ cc_pc = "idle"
    /\ cc_entry = "none"
    /\ node_url = None
    /\ current = 0
    /\ status_active = FALSE
    /\ progress = <<>>
    /\ progress_mark = 0
    /\ ctorLog = <<>>
    /\ ctorCalls = 0
    /\ writes = 0
    /\ calls = 0
    /\ cc_result = [kind |-> "none"]
    /\ stdout = <<>>
    /\ prompts = <<>>
    /\ confirms = 0
    /\ confirm_ret = [kind |-> "none"]

\* the context is not used in the specifications of the other parts
CtxIdle == obj = [yes_to_all |-> FALSE, use_testnet |-> FALSE] /\ CtxInit

confirmVars == <<stdout, prompts, confirms, confirm_ret>>
flagVars == <<obj, use_yes_to_all, use_testnet>>

\* com_client, lines 64-71: the cached return, or the entry into the loop
ComClientEnter ==
    /\ cc_pc = "idle"
    /\ calls < MaxCalls
    /\ calls' = calls + 1
    /\ progress_mark' = Len(progress)
    /\ IF HasCached(_com_client)
       THEN /\ cc_result' = [kind |-> "return", value |-> _com_client]
            /\ cc_entry' = "cached"
            /\ ctorLog' = <<>>
            /\ UNCHANGED <<cc_pc, node_url, current, status_active>>
       ELSE /\ node_url' = get_node_url(use_testnet)
            /\ status_active' = TRUE
            /\ current' = 1
            /\ cc_pc' = "attempt"
            /\ cc_entry' = "uncached"
            /\ ctorLog' = <<>>
            /\ cc_result' = [kind |-> "none"]
    /\ UNCHANGED <<_com_client, progress, ctorCalls, writes>>
    /\ UNCHANGED <<flagVars, confirmVars>>
    /\ UNCHANGED <<pmVars, zVars, rnvVars>>

\* com_client, lines 72-82: one iteration of the loop
ComClientAttempt ==
    /\ cc_pc = "attempt"
    /\ \E outcome \in {"ok"} \cup CtorExceptions :
         /\ ctorCalls' = ctorCalls + 1
         /\ ctorLog' = Append(ctorLog, outcome)
         /\ IF outcome = "ok"
            THEN \* the assignment, then `break`
                 /\ _com_client' = CommuneClient(node_url, ctorCalls + 1)
                 /\ writes' = writes + 1
                 /\ progress' = Append(progress, ConnectingMsg(node_url))
                 /\ cc_pc' = "finish"
                 /\ UNCHANGED <<current, status_active, cc_result>>
            ELSE IF Caught(outcome)
            THEN /\ progress' = Append(progress, ConnectingMsg(node_url))
                                  \o OnFailureUpdates(node_url, current)
                 /\ IF current < MaxAttempts
                    THEN current' = current + 1 /\ cc_pc' = "attempt"
                    ELSE current' = current /\ cc_pc' = "finish"
                 /\ UNCHANGED <<_com_client, writes, status_active, cc_result>>
            ELSE \* the exception leaves the loop, the `with` and com_client
                 /\ progress' = Append(progress, ConnectingMsg(node_url))
                 /\ status_active' = FALSE
                 /\ cc_pc' = "idle"
                 /\ cc_result' = [kind |-> "raise", exc |-> outcome, msg |-> <<>>]
                 /\ UNCHANGED <<_com_client, writes, current>>
    /\ UNCHANGED <<node_url, cc_entry, calls, progress_mark>>
    /\ UNCHANGED <<flagVars, confirmVars>>
    /\ UNCHANGED <<pmVars, zVars, rnvVars>>

\* com_client, lines 84-87: the end of the `with`, then the raise or the return
ComClientFinish ==
    /\ cc_pc = "finish"
    /\ status_active' = FALSE
    /\ cc_pc' = "idle"
    /\ IF _com_client = NoneV
       THEN cc_result' = [kind |-> "raise", exc |-> "ConnectionError",
                          msg |-> ConnErrorMsg(node_url)]
       ELSE cc_result' = [kind |-> "return", value |-> _com_client]
    /\ UNCHANGED <<_com_client, cc_entry, node_url, current, progress,
                   progress_mark, ctorLog, ctorCalls, writes, calls>>
    /\ UNCHANGED <<flagVars, confirmVars>>
    /\ UNCHANGED <<pmVars, zVars, rnvVars>>

\* confirm, lines 115-119
Confirm ==
    /\ cc_pc = "idle"
    /\ confirms < MaxConfirms
    /\ confirms' = confirms + 1
    /\ \E message \in Messages :
         IF SkipsPrompt(obj)
         THEN /\ stdout' = Append(stdout, AutoConfirmLine(message))
              /\ confirm_ret' = [kind |-> "return", message |-> message,
                                 value |-> TRUE, prompted |-> FALSE,
                                 answer |-> "unasked"]
              /\ UNCHANGED prompts
         ELSE \E answer \in BOOLEAN :   \* what the user types at typer.confirm
              /\ prompts' = Append(prompts, message)
              /\ confirm_ret' = [kind |-> "return", message |-> message,
                                 value |-> answer, prompted |-> TRUE,
                                 answer |-> answer]
              /\ UNCHANGED stdout
    /\ UNCHANGED <<flagVars, _com_client, cc_pc, cc_entry, node_url, current,
                   status_active, progress, progress_mark, ctorLog, ctorCalls,
                   writes, calls, cc_result>>
    /\ UNCHANGED <<pmVars, zVars, rnvVars>>

CtxNext == ComClientEnter \/ ComClientAttempt \/ ComClientFinish \/ Confirm

-----------------------------------------------------------------------------
(* dict operations; a dict is a sequence of <<key, value>> items *)

Keys(d) == {d[i][1] : i \in 1..Len(d)}

KeySeq(d) == [i \in 1..Len(d) |-> d[i][1]]

Values(d) == [i \in 1..Len(d) |-> d[i][2]]

HasKey(d, k) == k \in Keys(d)

IndexOf(d, k) == CHOOSE i \in 1..Len(d) : d[i][1] = k

\* d[k], for a key that is present
Get(d, k) == d[IndexOf(d, k)][2]

\* d.get(k): the value, or None for a missing key
GetOrNone(d, k) == IF HasKey(d, k) THEN Get(d, k) ELSE [t |-> "none"]

\* d[k] = v: in place for a key that is present, else a new last item
Set(d, k, v) ==
    IF HasKey(d, k) THEN [d EXCEPT ![IndexOf(d, k)] = <<k, v>>]
    ELSE Append(d, <<k, v>>)

\* del d[k], for a key that is present
Del(d, k) == SelectSeq(d, LAMBDA item : item[1] # k)

IsNone(v) == v.t = "none"

-----------------------------------------------------------------------------
(* communex.balance *)

\* 10**9: the raw units of one display unit
NanoScale == 1000000000

RECURSIVE Pow10(_)
Pow10(n) == IF n = 0 THEN 1 ELSE 10 * Pow10(n - 1)

\* a / b rounded to the nearest integer, ties to even, for a >= 0 and b > 0
RoundDiv(a, b) ==
    LET q == a \div b
        r == a % b
    IN  IF 2 * r > b \/ (2 * r = b /\ q % 2 = 1) THEN q + 1 ELSE q

\* from_nano(amount): amount / 10**9, kept exact as raw / (10**9 * per)
from_nano(amount) == [t |-> "quot", raw |-> amount, per |-> 1]

\* from_horus(amount, tempo): amount / (10**9 * tempo)
from_horus(amount, subnet_tempo) == [t |-> "quot", raw |-> amount, per |-> subnet_tempo]

\* round(x, ndigits): the nearest multiple of 10**-ndigits, as a count of them
round(x, ndigits) ==
    [t |-> "dec", places |-> ndigits,
     v |-> RoundDiv(x.raw, (NanoScale \div Pow10(ndigits)) * x.per)]

-----------------------------------------------------------------------------
(* transform_module_into *)

MaxMods == 2        \* records in the `modules` argument

RegBlock == [t |-> "int", v |-> 100]
StakeRaws == {0, 20000000}
EmissionRaw == 30000000
BalanceRaws == {0, 5}
BlockNumbers == {140, 200}
ImmunityPeriod == 50
Tempos == {0, 100}

\* a ModuleInfoWithOptionalBalance: balance is an int or None; the records
\* without the key at all are the ones `module.get("balance")` allows for
ModuleRecords ==
    LET base(stake) ==
          << <<"name", [t |-> "str", v |-> "mod"]>>,
             <<"emission", [t |-> "int", v |-> EmissionRaw]>>,
             <<"stake_from", [t |-> "list"]>>,
             <<"regblock", RegBlock>>,
             <<"last_update", [t |-> "int", v |-> 120]>>,
             <<"stake", [t |-> "int", v |-> stake]>> >>
    IN  {base(s) : s \in StakeRaws}
        \cup {Append(base(s), <<"balance", [t |-> "none"]>>) : s \in StakeRaws}
        \cup {Append(base(s), <<"balance", [t |-> "int", v |-> b]>>) :
                s \in StakeRaws, b \in BalanceRaws}

RECURSIVE SeqsUpTo(_, _)
SeqsUpTo(S, n) ==
    IF n = 0 THEN {<<>>}
    ELSE LET shorter == SeqsUpTo(S, n - 1)
         IN  shorter \cup {Append(q, x) : q \in {r \in shorter : Len(r) = n - 1}, x \in S}

Fail(exc) == [ok |-> FALSE, exc |-> exc]
Ok(val) == [ok |-> TRUE, val |-> val]

\* lines 198-199: `for key in to_exclude: del module[key]`
RECURSIVE DelAll(_, _)
DelAll(module, keys) ==
    IF keys = <<>> THEN Ok(module)
    ELSE IF ~HasKey(module, Head(keys)) THEN Fail("KeyError")
    ELSE DelAll(Del(module, Head(keys)), Tail(keys))

\* line 207: `if module.get("balance") is not None`
BalancePresent(module) == ~IsNone(GetOrNone(module, "balance"))

\* lines 207-211: the balance is converted, or its key deleted
BalanceStep(module) ==
    IF BalancePresent(module)
    THEN Ok(Set(module, "balance", from_nano(Get(module, "balance").v)))
    ELSE IF ~HasKey(module, "balance") THEN Fail("KeyError")
    ELSE Ok(Del(module, "balance"))

\* lines 194-212: the body of the loop, for one record
TransformOne(to_exclude, lb, ip, mod, tp) ==
    IF ~HasKey(mod, "regblock") THEN Fail("KeyError")
    ELSE
    LET m1 == Set(mod, "in_immunity",
                  [t |-> "bool", v |-> Get(mod, "regblock").v + ip > lb])
        r2 == DelAll(m1, to_exclude)
    IN  IF ~r2.ok THEN r2
        ELSE IF ~HasKey(r2.val, "stake") THEN Fail("KeyError")
        ELSE
        LET m3 == Set(r2.val, "stake", round(from_nano(Get(r2.val, "stake").v), 2))
        IN  IF ~HasKey(m3, "emission") THEN Fail("KeyError")
            ELSE IF tp = 0 THEN Fail("ZeroDivisionError")
            ELSE
            BalanceStep(Set(m3, "emission",
                            round(from_horus(Get(m3, "emission").v, tp), 4)))

\* lines 192-212: `for mod in mods`, each record appended to transformed_modules
RECURSIVE TransformAll(_, _, _, _, _)
TransformAll(to_exclude, lb, ip, mods, tp) ==
    IF mods = <<>> THEN Ok(<<>>)
    ELSE LET first == TransformOne(to_exclude, lb, ip, Head(mods), tp)
         IN  IF ~first.ok THEN first
             ELSE LET rest == TransformAll(to_exclude, lb, ip, Tail(mods), tp)
                  IN  IF ~rest.ok THEN rest ELSE Ok(<<first.val>> \o rest.val)

\* the records of a list do not all have the same keys
KeySetsDiffer(mods) == \E i, j \in 1..Len(mods) : Keys(mods[i]) # Keys(mods[j])

\* a variant of transform_module_into: a batch of differing key sets is rejected
transform_module_into_strict(to_exclude, lb, ip, mods, tp) ==
    LET r == TransformAll(to_exclude, lb, ip, mods, tp)
    IN  IF r.ok /\ KeySetsDiffer(r.val) THEN Fail("InvariantViolation") ELSE r

\* lines 186-214: the list of the transformed records is returned as it stands
transform_module_into(to_exclude, lb, ip, mods, tp) ==
    TransformAll(to_exclude, lb, ip, mods, tp)

-----------------------------------------------------------------------------
(* print_module_info *)

\* line 250
ToExclude == <<"stake_from", "last_update", "regblock">>

\* str(val): a str is itself, anything else its text
Str(val) == IF val.t = "str" THEN val ELSE [t |-> "str", of |-> val]

\* console.print() with no argument
BlankLine == [t |-> "blank"]

EmptyTable == [columns |-> <<>>, rows |-> <<>>, caption |-> NoneV]

\* lines 268-270: one cell per value of the record
RowOf(mod) == [i \in 1..Len(mod) |-> Str(Values(mod)[i])]

\* line 273: the caption, the sum of hundredths and of raw units in raw units
CaptionOf(tb, ts) ==
    <<"total balance: ", [t |-> "nano", v |-> tb + ts * (NanoScale \div Pow10(2))], "J">>

PmLocalsInit ==
    /\ pm_pc = "start"
    /\ client_calls = <<>>
    /\ last_block = NoneV
    /\ immunity_period = NoneV
    /\ tempo = NoneV
    /\ transformed = <<>>
    /\ table = NoneV
    /\ total_stake = 0
    /\ total_balance = 0
    /\ row_idx = 0
    /\ console = <<>>
    /\ pm_error = None

PmInit ==
    /\ modules \in SeqsUpTo(ModuleRecords, MaxMods)
    /\ block \in {NoneV} \cup {[t |-> "block", number |-> n] : n \in BlockNumbers}
    /\ chain_tempo \in Tempos
    /\ PmLocalsInit

\* print_module_info is not running in the specifications of the other parts
PmIdle == modules = <<>> /\ block = NoneV /\ chain_tempo = 0 /\ PmLocalsInit

pmInputs == <<modules, block, chain_tempo>>

\* lines 227-235: the empty list returns at once; else the current block is read
PMI_Start ==
    /\ pm_pc = "start"
    /\ UNCHANGED <<ctxVars, zVars, rnvVars>>
    /\ IF modules = <<>>
       THEN /\ pm_pc' = "done"
            /\ UNCHANGED <<client_calls, last_block, pm_error>>
       ELSE /\ client_calls' = Append(client_calls, "get_block")
            /\ IF block # NoneV
               THEN /\ last_block' = block.number
                    /\ pm_pc' = "params"
                    /\ UNCHANGED pm_error
               ELSE /\ pm_error' = "ValueError"
                    /\ pm_pc' = "raised"
                    /\ UNCHANGED last_block
    /\ UNCHANGED <<pmInputs, immunity_period, tempo, transformed, table,
                   total_stake, total_balance, row_idx, console>>

\* lines 238-248: the immunity period and the tempo are read, the Table is made
PMI_Params ==
    /\ pm_pc = "params"
    /\ UNCHANGED <<ctxVars, zVars, rnvVars>>
    /\ client_calls' = client_calls \o <<"get_immunity_period", "get_tempo">>
    /\ immunity_period' = ImmunityPeriod
    /\ tempo' = chain_tempo
    /\ table' = EmptyTable
    /\ pm_pc' = "transform"
    /\ UNCHANGED <<pmInputs, last_block, transformed, total_stake, total_balance,
                   row_idx, console, pm_error>>

\* lines 250-253: the call of transform_module_into
PMI_Transform ==
    /\ pm_pc = "transform"
    /\ UNCHANGED <<ctxVars, zVars, rnvVars>>
    /\ LET r == transform_module_into(ToExclude, last_block, immunity_period,
                                      modules, tempo)
       IN  IF r.ok
           THEN /\ transformed' = r.val
                /\ pm_pc' = "columns"
                /\ UNCHANGED pm_error
           ELSE /\ pm_error' = r.exc
                /\ pm_pc' = "raised"
                /\ UNCHANGED transformed
    /\ UNCHANGED <<pmInputs, client_calls, last_block, immunity_period, tempo,
                   table, total_stake, total_balance, row_idx, console>>

\* lines 255-261: one column per key of the first record
PMI_Columns ==
    /\ pm_pc = "columns"
    /\ UNCHANGED <<ctxVars, zVars, rnvVars>>
    /\ table' = [table EXCEPT !.columns = KeySeq(transformed[1])]
    /\ total_stake' = 0
    /\ total_balance' = 0
    /\ row_idx' = 1
    /\ pm_pc' = "rows"
    /\ UNCHANGED <<pmInputs, client_calls, last_block, immunity_period, tempo,
                   transformed, console, pm_error>>

\* a variant of PMI_Row: the table is printed as each row is added
PMI_RowPrinted ==
    /\ pm_pc = "rows"
    /\ UNCHANGED <<ctxVars, zVars, rnvVars>>
    /\ row_idx <= Len(transformed)
    /\ LET mod == transformed[row_idx]
       IN  /\ total_stake' = total_stake + Get(mod, "stake").v
           /\ total_balance' =
                IF ~IsNone(GetOrNone(mod, "balance"))
                THEN total_balance + Get(mod, "balance").raw
                ELSE total_balance
           /\ table' = [table EXCEPT !.rows = Append(@, RowOf(mod))]
    /\ console' = Append(console, table')
    /\ row_idx' = row_idx + 1
    /\ UNCHANGED <<pmInputs, pm_pc, client_calls, last_block, immunity_period,
                   tempo, transformed, pm_error>>

\* lines 263-271: one iteration of the loop over the transformed records
PMI_Row ==
    /\ pm_pc = "rows"
    /\ UNCHANGED <<ctxVars, zVars, rnvVars>>
    /\ row_idx <= Len(transformed)
    /\ LET mod == transformed[row_idx]
       IN  /\ total_stake' = total_stake + Get(mod, "stake").v
           /\ total_balance' =
                IF ~IsNone(GetOrNone(mod, "balance"))
                THEN total_balance + Get(mod, "balance").raw
                ELSE total_balance
           /\ table' = [table EXCEPT !.rows = Append(@, RowOf(mod))]
    /\ row_idx' = row_idx + 1
    /\ UNCHANGED <<pmInputs, pm_pc, client_calls, last_block, immunity_period,
                   tempo, transformed, console, pm_error>>

\* line 273: the caption
PMI_Caption ==
    /\ pm_pc = "rows"
    /\ UNCHANGED <<ctxVars, zVars, rnvVars>>
    /\ row_idx > Len(transformed)
    /\ table' = [table EXCEPT !.caption = CaptionOf(total_balance, total_stake)]
    /\ pm_pc' = "print"
    /\ UNCHANGED <<pmInputs, client_calls, last_block, immunity_period, tempo,
                   transformed, total_stake, total_balance, row_idx, console,
                   pm_error>>

\* lines 274-276: the table is printed, then three empty lines
PMI_Print ==
    /\ pm_pc = "print"
    /\ UNCHANGED <<ctxVars, zVars, rnvVars>>
    /\ console' = console \o <<table, BlankLine, BlankLine, BlankLine>>
    /\ pm_pc' = "done"
    /\ UNCHANGED <<pmInputs, client_calls, last_block, immunity_period, tempo,
                   transformed, table, total_stake, total_balance, row_idx,
                   pm_error>>

PmNext ==
    PMI_Start \/ PMI_Params \/ PMI_Transform \/ PMI_Columns \/ PMI_Row
    \/ PMI_Caption \/ PMI_Print

-----------------------------------------------------------------------------
(* print_table_standardize *)

MaxLen == 3         \* cells in one sequence of the `result` argument

Cells == {"p", "q"}

\* the `result` argument: up to two named sequences of renderable cells
ZInputs ==
    LET lists == SeqsUpTo(Cells, MaxLen)
    IN  {<<>>}
        \cup {<< <<"x", xs>> >> : xs \in lists}
        \cup {<< <<"x", xs>>, <<"y", ys>> >> : xs \in lists, ys \in lists}

Min(S) == CHOOSE m \in S : \A n \in S : m <= n

\* the number of tuples zip(*rows) yields: the length of the shortest argument
ZipLen(rows) ==
    IF rows = <<>> THEN 0 ELSE Min({Len(rows[j]) : j \in 1..Len(rows)})

\* a variant of Zip: sequences of unequal lengths give no rows
ZipStrict(rows) ==
    IF \E j, k \in 1..Len(rows) : Len(rows[j]) # Len(rows[k]) THEN <<>>
    ELSE [i \in 1..ZipLen(rows) |-> [j \in 1..Len(rows) |-> rows[j][i]]]

\* line 179: [list(column) for column in zip(*rows)]
Zip(rows) == [i \in 1..ZipLen(rows) |-> [j \in 1..Len(rows) |-> rows[j][i]]]

ZLocalsInit ==
    /\ z_pc = "columns"
    /\ ztable = NoneV
    /\ zipped_rows = <<>>
    /\ z_idx = 0
    /\ zconsole = <<>>

ZInit == zresult \in ZInputs /\ ZLocalsInit

\* print_table_standardize is not running in the specifications of the other parts
ZIdle == zresult = <<>> /\ ZLocalsInit

\* lines 174-177: the Table, one column per key
PTS_Columns ==
    /\ z_pc = "columns"
    /\ ztable' = [EmptyTable EXCEPT !.columns = KeySeq(zresult)]
    /\ z_pc' = "zip"
    /\ UNCHANGED <<zresult, zipped_rows, z_idx, zconsole>>
    /\ UNCHANGED <<ctxVars, pmVars, rnvVars>>

\* lines 178-179: the values are zipped into rows
PTS_Zip ==
    /\ z_pc = "zip"
    /\ zipped_rows' = Zip(Values(zresult))
    /\ z_idx' = 1
    /\ z_pc' = "rows"
    /\ UNCHANGED <<zresult, ztable, zconsole>>
    /\ UNCHANGED <<ctxVars, pmVars, rnvVars>>

\* lines 180-181: one iteration of the loop over zipped_rows
PTS_Row ==
    /\ z_pc = "rows"
    /\ z_idx <= Len(zipped_rows)
    /\ ztable' = [ztable EXCEPT !.rows = Append(@, zipped_rows[z_idx])]
    /\ z_idx' = z_idx + 1
    /\ UNCHANGED <<zresult, z_pc, zipped_rows, zconsole>>
    /\ UNCHANGED <<ctxVars, pmVars, rnvVars>>

\* line 183: the table is printed
PTS_Print ==
    /\ z_pc = "rows"
    /\ z_idx > Len(zipped_rows)
    /\ zconsole' = Append(zconsole, ztable)
    /\ z_pc' = "done"
    /\ UNCHANGED <<zresult, ztable, zipped_rows, z_idx>>
    /\ UNCHANGED <<ctxVars, pmVars, rnvVars>>

ZNext == PTS_Columns \/ PTS_Zip \/ PTS_Row \/ PTS_Print

-----------------------------------------------------------------------------
(* remove_none_values *)

MaxEntries == 5     \* keys of the `data` argument, counted at every depth

\* the keys of the `data` argument, and the keys of the dicts nested in it
TopKeys == <<"a", "b", "c">>
NestedKeys == <<"d", "e">>

Scalars == {NoneV, [t |-> "int", v |-> 1], [t |-> "int", v |-> 2]}

IsDict(v) == v.t = "dict"

DictV(d) == [t |-> "dict", d |-> d]

\* the number of keys of a dict, counted at every depth
RECURSIVE Entries(_)
Entries(d) ==
    IF d = <<>> THEN 0
    ELSE 1 + (IF IsDict(Head(d)[2]) THEN Entries(Head(d)[2].d) ELSE 0)
           + Entries(Tail(d))

\* the dicts of at most n entries whose own keys are keys[lo..], in order, and
\* whose nested dicts have their keys in NestedKeys
RECURSIVE DictsUpTo(_, _, _)
DictsUpTo(n, keys, lo) ==
    IF n = 0 THEN {<<>>}
    ELSE LET vals == Scalars \cup {DictV(x) : x \in DictsUpTo(n - 1, NestedKeys, 1)}
             left(v) == n - 1 - (IF IsDict(v) THEN Entries(v.d) ELSE 0)
         IN  {<<>>} \cup UNION { UNION {
                 { << <<keys[k], v>> >> \o rest : rest \in DictsUpTo(left(v), keys, k + 1) } :
                 v \in vals } : k \in lo..Len(keys) }

\* a variant of KeepNested: `if cleaned_value`, false of an empty dict
KeepNestedIfNonEmpty(cleaned_value) == cleaned_value # <<>>

\* line 315: `if cleaned_value is not None`, of a dict returned by the recursive call
KeepNested(cleaned_value) == TRUE

\* lines 306-319
RECURSIVE remove_none_values(_)
remove_none_values(d) ==
    IF d = <<>> THEN <<>>
    ELSE LET key == Head(d)[1]
             value == Head(d)[2]
             rest == remove_none_values(Tail(d))
         IN  IF IsDict(value)
             THEN LET cleaned_value == remove_none_values(value.d)
                  IN  IF KeepNested(cleaned_value)
                      THEN << <<key, DictV(cleaned_value)>> >> \o rest
                      ELSE rest
             ELSE IF ~IsNone(value) THEN << <<key, value>> >> \o rest
             ELSE rest

RnvLocalsInit ==
    /\ rnv_pc = "start"
    /\ cleaned = NoneV
    /\ cleaned_twice = NoneV

RnvInit == data \in DictsUpTo(MaxEntries, TopKeys, 1) /\ RnvLocalsInit

\* remove_none_values is not running in the specifications of the other parts
RnvIdle == data = <<>> /\ RnvLocalsInit

\* display_params = remove_none_values(params_)
RNV_Call ==
    /\ rnv_pc = "start"
    /\ cleaned' = remove_none_values(data)
    /\ rnv_pc' = "once"
    /\ UNCHANGED <<data, cleaned_twice>>
    /\ UNCHANGED <<ctxVars, pmVars, zVars>>

\* remove_none_values applied to its own result
RNV_Again ==
    /\ rnv_pc = "once"
    /\ cleaned_twice' = remove_none_values(cleaned)
    /\ rnv_pc' = "twice"
    /\ UNCHANGED <<data, cleaned>>
    /\ UNCHANGED <<ctxVars, pmVars, zVars>>

RnvNext == RNV_Call \/ RNV_Again

-----------------------------------------------------------------------------
(* Specifications: one per part of the file *)

InitCtx == CtxInit /\ PmIdle /\ ZIdle /\ RnvIdle
SpecCtx == InitCtx /\ [][CtxNext]_vars

InitModules == CtxIdle /\ PmInit /\ ZIdle /\ RnvIdle
SpecModules == InitModules /\ [][PmNext]_vars

InitZip == CtxIdle /\ PmIdle /\ ZInit /\ RnvIdle
SpecZip == InitZip /\ [][ZNext]_vars

InitRnv == CtxIdle /\ PmIdle /\ ZIdle /\ RnvInit
SpecRnv == InitRnv /\ [][RnvNext]_vars

-----------------------------------------------------------------------------
(* Properties of CustomCtx, checked under SpecCtx *)

Contains(msg, part) == \E i \in 1..Len(msg) : msg[i] = part

\* the status.update messages of the last com_client call
LastProgress == SubSeq(progress, progress_mark + 1, Len(progress))

\* the last com_client call is over and began with no cached connection
UncachedCallDone == cc_pc = "idle" /\ cc_entry = "uncached"

AllFailed(log) == \A i \in 1..Len(log) : log[i] \in CtorExceptions

\* the constructor failed on attempts 1-4 and succeeded on attempt 5
FourFailuresThenSuccess(log) ==
    /\ Len(log) = 5
    /\ \A i \in 1..4 : log[i] \in CtorExceptions
    /\ log[5] = "ok"

\* C1: once _com_client holds a handle, no step changes it, calls the
\* constructor or reports progress; a com_client call begun then returns that
\* handle; and _com_client is assigned at most once in the life of the context.
C1_CachedConnectionIsFinal ==
    [][ /\ _com_client # NoneV =>
            /\ _com_client' = _com_client
            /\ ctorCalls' = ctorCalls
            /\ progress' = progress
            /\ writes' = writes
            /\ calls' = calls + 1 =>
                 cc_result' = [kind |-> "return", value |-> _com_client]
        /\ writes' <= 1
        /\ writes' = 0 <=> _com_client' = NoneV ]_vars

\* a second com_client call has returned the handle the first one cached
C1_Witness ==
    /\ calls >= 2
    /\ cc_pc = "idle"
    /\ cc_entry = "cached"
    /\ cc_result.kind = "return"
    /\ cc_result.value = _com_client
    /\ ctorCalls >= 1

\* C2, as claimed: after failures on attempts 1-4 and a success on attempt 5,
\* com_client returns the handle and has reported exactly 5 progress updates.
C2_FiveProgressUpdates ==
    (UncachedCallDone /\ FourFailuresThenSuccess(ctorLog)) =>
        /\ cc_result = [kind |-> "return", value |-> _com_client]
        /\ Len(LastProgress) = 5

\* C2, amended: after failures on attempts 1-4 and a success on attempt 5,
\* com_client returns the handle of the fifth constructor call and has reported
\* exactly 9 progress updates: "Connecting to node <url>..." before each of the
\* 5 attempts and "... (<n>/5 retries)..." after each of the 4 failures.
C2_NineProgressUpdates ==
    (UncachedCallDone /\ FourFailuresThenSuccess(ctorLog)) =>
        /\ cc_result = [kind |-> "return", value |-> _com_client]
        /\ _com_client = CommuneClient(get_node_url(use_testnet), ctorCalls)
        /\ Len(LastProgress) = 9
        /\ \A n \in 1..4 :
             /\ LastProgress[2 * n - 1] = ConnectingMsg(get_node_url(use_testnet))
             /\ LastProgress[2 * n] = RetryMsg(get_node_url(use_testnet), n)
        /\ LastProgress[9] = ConnectingMsg(get_node_url(use_testnet))

\* a com_client call has returned after four failures and a success
C2_Witness ==
    /\ UncachedCallDone
    /\ FourFailuresThenSuccess(ctorLog)
    /\ cc_result.kind = "return"

\* C3: a com_client call that began with no cached connection and whose every
\* constructor call failed has made exactly 5 constructor calls, has ended with
\* ConnectionError (no constructor exception left it) and has left _com_client
\* unset.
C3_ExhaustedAfterFiveAttempts ==
    (UncachedCallDone /\ AllFailed(ctorLog)) =>
        /\ Len(ctorLog) = MaxAttempts
        /\ cc_result.kind = "raise"
        /\ cc_result.exc = "ConnectionError"
        /\ _com_client = NoneV
        /\ writes = 0

\* a com_client call has ended after constructor failures of both kinds
C3_Witness ==
    /\ UncachedCallDone
    /\ AllFailed(ctorLog)
    /\ Len(ctorLog) = 5
    /\ \E i, j \in 1..5 : ctorLog[i] # ctorLog[j]
    /\ cc_result.kind = "raise"

\* the last com_client call ended with the ConnectionError of line 85
Exhausted == cc_pc = "idle" /\ cc_result.kind = "raise" /\ cc_result.exc = "ConnectionError"

\* C4, as claimed: the ConnectionError raised after 5 failed attempts has the
\* node URL in its message.
C4_ErrorCarriesUrl ==
    Exhausted => Contains(cc_result.msg, get_node_url(use_testnet))

\* C4, amended: the ConnectionError raised after 5 failed attempts has the
\* fixed message "Could not connect to any node", which does not include the
\* node URL; the URL resolved from the testnet flag appears only in the
\* progress updates of the call, in every one of them.
C4_ErrorMessageIsFixed ==
    Exhausted =>
        /\ cc_result.msg = <<"Could not connect to any node">>
        /\ ~Contains(cc_result.msg, get_node_url(use_testnet))
        /\ Len(LastProgress) = 2 * MaxAttempts
        /\ \A i \in 1..Len(LastProgress) :
             Contains(LastProgress[i], get_node_url(use_testnet))

\* a com_client call on a testnet context has ended with ConnectionError
C4_Witness == Exhausted /\ use_testnet /\ Len(ctorLog) = 5

\* C5: on a context whose use_yes_to_all is true, no confirm call has prompted,
\* every confirm call has printed its message with the " (--yes)" mark to
\* standard output, and the last one returned true; on a context whose flag is
\* false every confirm call has prompted, printed nothing, and the last one
\* returned the user's answer to the prompt for its message.
C5_SkipConfirmNeverPrompts ==
    /\ use_yes_to_all =>
         /\ prompts = <<>>
         /\ Len(stdout) = confirms
         /\ confirm_ret.kind = "return" =>
              /\ confirm_ret.value = TRUE
              /\ ~confirm_ret.prompted
              /\ stdout[Len(stdout)] = <<confirm_ret.message, " (--yes)">>
    /\ ~use_yes_to_all =>
         /\ stdout = <<>>
         /\ Len(prompts) = confirms
         /\ confirm_ret.kind = "return" =>
              /\ confirm_ret.prompted
              /\ confirm_ret.value = confirm_ret.answer
              /\ prompts[Len(prompts)] = confirm_ret.message

\* two confirm calls with different messages have returned on a --yes context
C5_Witness ==
    /\ use_yes_to_all
    /\ confirms = 2
    /\ confirm_ret.kind = "return"
    /\ Len(stdout) = 2
    /\ stdout[1] # stdout[2]

-----------------------------------------------------------------------------
(* Properties of transform_module_into and print_module_info, checked under *)
(* SpecModules                                                              *)

\* the record has no balance: the key is missing, or its value is None
LacksBalance(mod) == ~HasKey(mod, "balance") \/ IsNone(Get(mod, "balance"))

ZeroBalance(mod) == HasKey(mod, "balance") /\ Get(mod, "balance") = [t |-> "int", v |-> 0]

\* the call of transform_module_into has been made
TransformCalled == pm_pc \in {"columns", "rows", "print", "done"} \/
                   (pm_pc = "raised" /\ pm_error # "ValueError")

\* C6, as claimed: transform_module_into, given records of which some lack a
\* balance (key missing, or value None) and a tempo that is not zero, ends
\* without error; a record that lacks a balance has no balance key in the
\* output and a record whose balance is zero has one.
C6_LackingBalanceIsDropped ==
    (TransformCalled /\ chain_tempo # 0) =>
        /\ pm_error = None
        /\ Len(transformed) = Len(modules)
        /\ \A i \in 1..Len(modules) :
             /\ LacksBalance(modules[i]) => ~HasKey(transformed[i], "balance")
             /\ ZeroBalance(modules[i]) => HasKey(transformed[i], "balance")

\* the table of a finished print_module_info
Printed == console[1]

RowsMatchColumns(tbl) == \A i \in 1..Len(tbl.rows) : Len(tbl.rows[i]) = Len(tbl.columns)

\* C7, as claimed: a batch whose records have differing key sets after
\* exclusion and balance handling ends with InvariantViolation, and no table
\* is printed whose rows do not match its columns.
C7_MismatchIsRejected ==
    /\ KeySetsDiffer(transformed) => pm_error = "InvariantViolation"
    /\ pm_pc = "done" /\ console # <<>> => RowsMatchColumns(Printed)

\* C7, amended: a batch whose records have differing key sets after exclusion
\* and balance handling is not rejected: transform_module_into returns each
\* record with its own keys and raises nothing, the only errors of
\* print_module_info are the ValueError of a missing block, the KeyError of a
\* missing key and the ZeroDivisionError of a zero tempo, and the table that is
\* printed has the keys of the first record as its columns and, for each
\* record, a row of one cell per key of that record, so that some row does not
\* match the columns.
C7_MismatchIsNotRejected ==
    /\ KeySetsDiffer(transformed) => pm_error = None
    /\ pm_pc = "raised" =>
         \/ pm_error = "ValueError" /\ block = NoneV
         \/ pm_error = "KeyError" /\ \E i \in 1..Len(modules) : ~HasKey(modules[i], "balance")
         \/ pm_error = "ZeroDivisionError" /\ chain_tempo = 0
    /\ (pm_pc = "done" /\ KeySetsDiffer(transformed)) =>
         /\ Len(console) = 4
         /\ Printed.columns = KeySeq(transformed[1])
         /\ Len(Printed.rows) = Len(transformed)
         /\ \A i \in 1..Len(transformed) :
              /\ Len(Printed.rows[i]) = Len(transformed[i])
              /\ \A j \in 1..Len(transformed[i]) :
                   Printed.rows[i][j] = Str(transformed[i][j][2])
         /\ ~RowsMatchColumns(Printed)

\* a table has been printed for a record with a balance and one without: the
\* second row has a cell less than there are columns
C7_Witness ==
    /\ pm_pc = "done"
    /\ Len(transformed) = 2
    /\ HasKey(transformed[1], "balance")
    /\ ~HasKey(transformed[2], "balance")
    /\ Len(Printed.rows[2]) = Len(Printed.columns) - 1

\* C10: nothing is written to the console before print_module_info is done, so
\* nothing has been written when it ends with an error; an empty list writes
\* nothing, raises nothing and calls no method of the client; and what is
\* written is the finished table: every row built, the caption set.
C10_TableIsAllOrNothing ==
    /\ pm_pc # "done" => console = <<>>
    /\ pm_pc = "raised" => pm_error # None
    /\ pm_error # None => pm_pc = "raised" /\ console = <<>>
    /\ modules = <<>> =>
         /\ console = <<>>
         /\ pm_error = None
         /\ client_calls = <<>>
         /\ pm_pc \in {"start", "done"}
    /\ console # <<>> =>
         /\ pm_pc = "done"
         /\ Printed = table
         /\ Len(table.rows) = Len(modules)
         /\ table.caption # NoneV

\* print_module_info has ended with the KeyError of the second record, after
\* the first was transformed, and nothing was written
C10_Witness ==
    /\ pm_pc = "raised"
    /\ pm_error = "KeyError"
    /\ Len(modules) = 2
    /\ HasKey(modules[1], "balance")
    /\ ~HasKey(modules[2], "balance")
    /\ console = <<>>

-----------------------------------------------------------------------------
(* Properties of print_table_standardize, checked under SpecZip *)

UnequalLengths(d) == \E j, k \in 1..Len(d) : Len(d[j][2]) # Len(d[k][2])

\* C9, as claimed: given sequences of unequal lengths, print_table_standardize
\* fails and prints no table.
C9_UnequalLengthsFail ==
    UnequalLengths(zresult) => (z_pc # "done" /\ zconsole = <<>>)

\* C9, amended: given sequences of renderable cells of unequal lengths,
\* print_table_standardize raises nothing and prints a table of one column per
\* key and as many rows as the shortest sequence has cells, row i holding the
\* i-th cell of every sequence; the cells past that length are left out.
C9_TruncatedToShortest ==
    (z_pc = "done" /\ UnequalLengths(zresult)) =>
        /\ Len(zconsole) = 1
        /\ zconsole[1].columns = KeySeq(zresult)
        /\ \A j \in 1..Len(zresult) : Len(zconsole[1].rows) <= Len(zresult[j][2])
        /\ \E j \in 1..Len(zresult) : Len(zconsole[1].rows) = Len(zresult[j][2])
        /\ \A i \in 1..Len(zconsole[1].rows) :
             /\ Len(zconsole[1].rows[i]) = Len(zresult)
             /\ \A j \in 1..Len(zresult) : zconsole[1].rows[i][j] = zresult[j][2][i]

\* a table of two rows has been printed for sequences of two and three cells
C9_Witness ==
    /\ z_pc = "done"
    /\ Len(zresult) = 2
    /\ Len(zresult[1][2]) = 2
    /\ Len(zresult[2][2]) = 3
    /\ Len(zconsole) = 1
    /\ Len(zconsole[1].rows) = 2

-----------------------------------------------------------------------------
(* Properties of remove_none_values, checked under SpecRnv *)

\* no key of the dict, at any depth, has the value None
RECURSIVE NoNoneValue(_)
NoNoneValue(d) ==
    \A i \in 1..Len(d) :
        /\ ~IsNone(d[i][2])
        /\ IsDict(d[i][2]) => NoNoneValue(d[i][2].d)

\* out has the keys of d whose value is not None, in the order of d: each scalar
\* with its value, each nested dict with what it keeps in turn
RECURSIVE KeepsAllButNone(_, _)
KeepsAllButNone(d, out) ==
    /\ KeySeq(out) = KeySeq(SelectSeq(d, LAMBDA item : ~IsNone(item[2])))
    /\ \A i \in 1..Len(d) :
         LET k == d[i][1]
             v == d[i][2]
         IN  /\ (~IsNone(v) /\ ~IsDict(v)) => (HasKey(out, k) /\ Get(out, k) = v)
             /\ IsDict(v) => /\ HasKey(out, k)
                             /\ IsDict(Get(out, k))
                             /\ KeepsAllButNone(v.d, Get(out, k).d)

\* C8: the result of remove_none_values has no None value at any depth, keeps
\* every scalar that is not None with its value and every nested dict under its
\* key (also one that has become empty), and is a fixed point: a second
\* application returns it unchanged.
C8_NoneValuesRemoved ==
    /\ rnv_pc \in {"once", "twice"} =>
         /\ NoNoneValue(cleaned)
         /\ KeepsAllButNone(data, cleaned)
    /\ rnv_pc = "twice" => cleaned_twice = cleaned

\* {a: 1, b: None, c: {d: None, e: 2}} has given {a: 1, c: {e: 2}}, twice
C8_Witness ==
    /\ rnv_pc = "twice"
    /\ data = << <<"a", [t |-> "int", v |-> 1]>>, <<"b", NoneV>>,
                 <<"c", DictV(<< <<"d", NoneV>>, <<"e", [t |-> "int", v |-> 2]>> >>)>> >>
    /\ cleaned = << <<"a", [t |-> "int", v |-> 1]>>,
                    <<"c", DictV(<< <<"e", [t |-> "int", v |-> 2]>> >>)>> >>
    /\ cleaned_twice = cleaned

=============================================================================
